---- MODULE Spec2Model ----
(***************************************************************************)
(* MicroReview: the finding aggregation pipeline of core/synthesizer.py    *)
(* (class ResultSynthesizer), the driver of core/orchestrator.py (class    *)
(* AgentOrchestrator) and the configuration of config/loader.py.           *)
(* Findings are Python dicts, modelled as                                  *)
(* functions whose DOMAIN is the set of keys present.  Strings are TLA+    *)
(* strings, so that keys built by formatting are built by concatenation.   *)
(* Confidence is counted in hundredths (0.93 is 93).                       *)
(***************************************************************************)
EXTENDS Integers, Sequences, FiniteSets, TLC

VARIABLES
    group_by,               \* config.group_by
    hash_order,             \* iteration order of a set of agent names in this process
    findings,               \* the list handed to the method under call
    pc,                     \* which method has run on findings
    arg,                    \* argument of the last direct call of a helper
    ret,                    \* its return value
    noise_filtered,         \* _intelligent_filter_findings: filtered_findings after step 1
    filtered_findings,      \* synthesize_findings: local filtered_findings
    deduplicated_findings,  \* synthesize_findings: local deduplicated_findings
    grouped_findings,       \* synthesize_findings: local grouped_findings
    rendered,               \* _format_review_comment: (group_name, sorted_findings) per group
    lines,                  \* _format_review_comment: local lines
    comment,                \* the string synthesize_findings returns
    earlier_comment,        \* the string an earlier call on the same list returned
    config,                 \* AgentOrchestrator: self.config
    self_agents,            \* AgentOrchestrator: the names of self.agents, in order
    file_diffs,             \* run_analysis: the paths of file_diffs, in order
    file_index,             \* run_analysis: place of the outer loop in file_diffs
    agent_index,            \* run_analysis: place of the inner loop in agents
    all_findings,           \* run_analysis: local all_findings
    calls                   \* run_analysis: the calls of agent.forward so far, in order

vars == <<group_by, hash_order, findings, pc, arg, ret, noise_filtered, filtered_findings,
          deduplicated_findings, grouped_findings, rendered, lines, comment,
          earlier_comment, config, self_agents, file_diffs, file_index, agent_index,
          all_findings, calls>>

OrchestratorVars == <<config, self_agents, file_diffs, file_index, agent_index, all_findings,
                      calls>>

(***************************************************************************)
(* Bounds of the model.                                                    *)
(***************************************************************************)
MaxLen == 3

\* Files in a diff, and findings in what one call of an agent returns.
MaxFiles == 2
MaxResults == 2

(***************************************************************************)
(* Python string primitives.                                               *)
(***************************************************************************)
Min(a, b) == IF a < b THEN a ELSE b

\* s[:n]
Prefix(s, n) == SubSeq(s, 1, Min(n, Len(s)))

\* sub in s
Contains(s, sub) ==
    \E i \in 1..(Len(s) - Len(sub) + 1) : SubSeq(s, i, i + Len(sub) - 1) = sub

UpperChars == "ABCDEFGHIJKLMNOPQRSTUVWXYZ"
LowerChars == "abcdefghijklmnopqrstuvwxyz"

\* 1 + alphabet.find(c)
IndexIn(alphabet, c) ==
    LET hits == {i \in 1..Len(alphabet) : SubSeq(alphabet, i, i) = c}
    IN IF hits = {} THEN 0 ELSE CHOOSE i \in hits : \A j \in hits : i <= j

LowerChar(c) ==
    LET i == IndexIn(UpperChars, c) IN IF i = 0 THEN c ELSE SubSeq(LowerChars, i, i)

UpperChar(c) ==
    LET i == IndexIn(LowerChars, c) IN IF i = 0 THEN c ELSE SubSeq(UpperChars, i, i)

IsCased(c) == IndexIn(UpperChars, c) # 0 \/ IndexIn(LowerChars, c) # 0

\* s.lower()
RECURSIVE Lower(_)
Lower(s) ==
    IF s = "" THEN "" ELSE LowerChar(SubSeq(s, 1, 1)) \o Lower(SubSeq(s, 2, Len(s)))

\* s.title(): a cased character is upper-cased after an uncased one (or at the
\* start) and lower-cased after a cased one.
RECURSIVE TitleFrom(_, _)
TitleFrom(s, prevCased) ==
    IF s = "" THEN ""
    ELSE LET c == SubSeq(s, 1, 1)
         IN (IF prevCased THEN LowerChar(c) ELSE UpperChar(c))
                \o TitleFrom(SubSeq(s, 2, Len(s)), IsCased(c))

Title(s) == TitleFrom(s, FALSE)

\* The printable ASCII characters that occur in the model's strings, in code
\* point order, for Python's order on str.
Ascii == " #()*+,-./0123456789:;<=>?@ABCDEFGHIJKLMNOPQRSTUVWXYZ[]^_abcdefghijklmnopqrstuvwxyz{|}~"

\* a < b on str
RECURSIVE StrLess(_, _)
StrLess(a, b) ==
    IF b = "" THEN FALSE
    ELSE IF a = "" THEN TRUE
    ELSE IF SubSeq(a, 1, 1) = SubSeq(b, 1, 1)
    THEN StrLess(SubSeq(a, 2, Len(a)), SubSeq(b, 2, Len(b)))
    ELSE IndexIn(Ascii, SubSeq(a, 1, 1)) < IndexIn(Ascii, SubSeq(b, 1, 1))

\* sep.join(parts)
RECURSIVE Join(_, _)
Join(sep, parts) ==
    IF parts = <<>> THEN ""
    ELSE IF Len(parts) = 1 THEN parts[1]
    ELSE parts[1] \o sep \o Join(sep, Tail(parts))

\* c * n
RECURSIVE Repeat(_, _)
Repeat(c, n) == IF n = 0 THEN "" ELSE c \o Repeat(c, n - 1)

\* f"{confidence:.2f}" for a confidence given in hundredths
Fmt2f(c) ==
    LET a == IF c < 0 THEN -c ELSE c
    IN (IF c < 0 THEN "-" ELSE "")
            \o ToString(a \div 100) \o "." \o ToString((a % 100) \div 10)
            \o ToString(a % 10)

(***************************************************************************)
(* Python list and dict primitives.                                        *)
(***************************************************************************)
\* d.get(key, default)
Get(d, key, default) == IF key \in DOMAIN d THEN d[key] ELSE default

\* sorted(s, key=...) is stable: before[i, j] tells that the key of s[i] is
\* strictly less than the key of s[j].
StableSort(s, before) ==
    LET n == Len(s)
        rank(i) == Cardinality({j \in 1..n :
                        before[j, i] \/ (~before[i, j] /\ j < i)})
    IN [p \in 1..n |-> s[CHOOSE i \in 1..n : rank(i) = p - 1]]

\* The distinct values of keys[1..], in first-seen order (dict insertion order).
RECURSIVE FirstSeen(_)
FirstSeen(keys) ==
    IF keys = <<>> THEN <<>>
    ELSE LET init == FirstSeen(SubSeq(keys, 1, Len(keys) - 1))
             last == keys[Len(keys)]
         IN IF \E i \in 1..Len(init) : init[i] = last THEN init ELSE Append(init, last)

\* list(set(names)): the distinct names in the order this process's string
\* hashing yields them.
ListOfSet(names) == SelectSeq(hash_order, LAMBDA a : a \in names)

SeqRange(s) == {s[i] : i \in 1..Len(s)}

RECURSIVE Flatten(_)
Flatten(ss) == IF ss = <<>> THEN <<>> ELSE Head(ss) \o Flatten(Tail(ss))

(***************************************************************************)
(* Finding fields with the defaults the code reads them with.              *)
(***************************************************************************)
\* str(finding.get('line_number', '')), and the same value inside an f-string
LineStr(f) == IF "line_number" \in DOMAIN f THEN ToString(f["line_number"]) ELSE ""

NoiseFloor == 30            \* 0.3
TestPathFloor == 70         \* 0.7
ReasoningPrefixLen == 100   \* reasoning[:100]
DefaultSeverityWeight == 2
DefaultConfidence == 0
DefaultPriorityConfidence == 50   \* 0.5

TestPathMarkers == {"test", "spec", "__test__", ".test."}
DocPathMarkers == {"readme", "doc", ".md"}

(***************************************************************************)
(* ResultSynthesizer._deduplicate_findings                                 *)
(***************************************************************************)
\* A content that leaves the reasoning out: findings that differ only in their
\* reasoning would then be duplicates.
DedupContent_without_reasoning(f) ==
    Get(f, "file_path", "") \o "|" \o LineStr(f) \o "|" \o Get(f, "finding", "")

\* content = f"{file_path}|{line_number}|{finding_text}|{reasoning[:100]}"
DedupContent(f) ==
    Get(f, "file_path", "") \o "|" \o LineStr(f) \o "|" \o Get(f, "finding", "")
        \o "|" \o Prefix(Get(f, "reasoning", ""), ReasoningPrefixLen)

\* hashlib.md5(content.encode()).hexdigest(); MD5 is taken to be collision
\* free, so two digests are equal exactly when the contents are.
finding_hash(f) == DedupContent(f)

\* A loop with the test on seen_hashes inverted: it keeps the repeats and
\* drops the first of each hash.
RECURSIVE DedupLoop_keep_repeats(_, _, _)
DedupLoop_keep_repeats(rest, seen_hashes, unique_findings) ==
    IF rest = <<>> THEN unique_findings
    ELSE LET finding == Head(rest)
             h == DedupContent(finding)
         IN IF h \in seen_hashes
            THEN DedupLoop_keep_repeats(Tail(rest), seen_hashes,
                                        Append(unique_findings, finding))
            ELSE DedupLoop_keep_repeats(Tail(rest), seen_hashes \cup {h},
                                        unique_findings)

\* The loop over findings, with its seen_hashes and unique_findings.
RECURSIVE DedupLoop(_, _, _)
DedupLoop(rest, seen_hashes, unique_findings) ==
    IF rest = <<>> THEN unique_findings
    ELSE LET finding == Head(rest)
             h == finding_hash(finding)
         IN IF h \notin seen_hashes
            THEN DedupLoop(Tail(rest), seen_hashes \cup {h},
                           Append(unique_findings, finding))
            ELSE DedupLoop(Tail(rest), seen_hashes, unique_findings)

\* A deduplication that keeps the last finding of each hash instead of the first.
_deduplicate_findings_keep_last(fs) ==
    LET RECURSIVE Loop(_)
        Loop(rest) ==
            IF rest = <<>> THEN <<>>
            ELSE IF \E j \in 2..Len(rest) :
                        DedupContent(rest[j]) = DedupContent(Head(rest))
                 THEN Loop(Tail(rest))
                 ELSE << Head(rest) >> \o Loop(Tail(rest))
    IN Loop(fs)

_deduplicate_findings(fs) == DedupLoop(fs, {}, <<>>)

(***************************************************************************)
(* ResultSynthesizer._group_similar_findings                               *)
(***************************************************************************)
\* key = f"{file_path}:{line_number}:{finding_text}"
SimilarKey(f) ==
    Get(f, "file_path", "") \o ":" \o LineStr(f) \o ":" \o Get(f, "finding", "")

\* groups[key]: the findings of the key, in input order
SimilarGroup(fs, key) == SelectSeq(fs, LAMBDA f : SimilarKey(f) = key)

ConfidenceDesc(a, b) ==
    Get(a, "confidence", DefaultConfidence) > Get(b, "confidence", DefaultConfidence)

\* f" (Confirmed by {len(unique_agents)} agents: {', '.join(unique_agents)})"
ConfirmedNote(unique_agents) ==
    " (Confirmed by " \o ToString(Len(unique_agents)) \o " agents: "
        \o Join(", ", unique_agents) \o ")"

\* What one group contributes to the result.
MergeGroup(group_findings) ==
    IF Len(group_findings) = 1 THEN group_findings[1]
    ELSE LET n == Len(group_findings)
             sorted_findings ==
                StableSort(group_findings,
                    [i, j \in 1..n |->
                        ConfidenceDesc(group_findings[i], group_findings[j])])
             best_finding == sorted_findings[1]
             agents == {Get(group_findings[i], "agent", "Unknown") :
                            i \in 1..Len(group_findings)}
             unique_agents == ListOfSet(agents)
         IN IF Len(unique_agents) > 1
            THEN [best_finding EXCEPT
                     !["reasoning"] = @ \o ConfirmedNote(unique_agents)]
            ELSE best_finding

\* sorted_findings[0]: the finding of the group the result is made from
BestOfGroup(group_findings) ==
    LET n == Len(group_findings)
    IN StableSort(group_findings,
            [i, j \in 1..n |->
                ConfidenceDesc(group_findings[i], group_findings[j])])[1]

\* The group reaches best_finding['reasoning'] += ...: it has several findings,
\* of more than one agent.
GetsNote(group_findings) ==
    /\ Len(group_findings) > 1
    /\ Cardinality({Get(group_findings[i], "agent", "Unknown") :
                        i \in 1..Len(group_findings)}) > 1

\* A variant in which the agent is read as f['agent']: a group with a finding
\* that has no agent raises.
MergeRaises_on_missing_agent(fs) ==
    \E i \in 1..Len(fs) :
        LET group_findings == SimilarGroup(fs, SimilarKey(fs[i]))
        IN /\ Len(group_findings) > 1
           /\ \/ \E k \in 1..Len(group_findings) :
                    "agent" \notin DOMAIN group_findings[k]
              \/ /\ GetsNote(group_findings)
                 /\ "reasoning" \notin DOMAIN BestOfGroup(group_findings)

\* best_finding['reasoning'] += ... raises KeyError when the best finding of a
\* group that gets the note has no reasoning.
MergeRaises(fs) ==
    \E i \in 1..Len(fs) :
        LET group_findings == SimilarGroup(fs, SimilarKey(fs[i]))
        IN /\ GetsNote(group_findings)
           /\ "reasoning" \notin DOMAIN BestOfGroup(group_findings)

\* A variant without .copy(): best_finding is the dict of the list itself.
copy_same_dict(i) == i

\* sorted_findings[0].copy(): the dict that gets the note is a new one.  Dicts
\* are named by their place in the list handed to synthesize_findings; 0 names
\* a dict that is not in the list.
copy(i) == 0

\* The places in fs of the findings that are the best finding of a group that
\* gets the note; kept is the list the noise filter has made of fs.
BestPlaces(fs, kept) ==
    {i \in 1..Len(fs) :
        /\ \E k \in 1..Len(kept) : kept[k] = fs[i]
        /\ \A j \in 1..(i - 1) : fs[j] # fs[i]
        /\ LET group_findings == SimilarGroup(kept, SimilarKey(fs[i]))
           IN /\ GetsNote(group_findings)
              /\ fs[i] = BestOfGroup(group_findings)}

_group_similar_findings(fs) ==
    LET keys == FirstSeen([i \in 1..Len(fs) |-> SimilarKey(fs[i])])
    IN [k \in 1..Len(keys) |-> MergeGroup(SimilarGroup(fs, keys[k]))]

(***************************************************************************)
(* ResultSynthesizer._prioritize_findings                                  *)
(***************************************************************************)
severity_scores(severity) ==
    CASE severity = "critical" -> 4
      [] severity = "high" -> 3
      [] severity = "medium" -> 2
      [] severity = "low" -> 1
      [] OTHER -> DefaultSeverityWeight

priority_score(f) ==
    severity_scores(Get(f, "severity", "medium"))
        * Get(f, "confidence", DefaultPriorityConfidence)

\* An order that looks at the severity alone.
PriorityDesc_by_severity(a, b) ==
    severity_scores(Get(a, "severity", "medium"))
        > severity_scores(Get(b, "severity", "medium"))

PriorityDesc(a, b) == priority_score(a) > priority_score(b)

_prioritize_findings(fs) ==
    StableSort(fs, [i, j \in 1..Len(fs) |-> PriorityDesc(fs[i], fs[j])])

(***************************************************************************)
(* ResultSynthesizer._intelligent_filter_findings                          *)
(***************************************************************************)
HasMarker(path, markers) ==
    LET lowered == Lower(path) IN \E m \in markers : Contains(lowered, m)

\* The loop body without its first rule (no absolute confidence floor).
PassesNoise_without_floor(f) ==
    LET file_path == Get(f, "file_path", "")
    IN /\ ~(/\ HasMarker(file_path, TestPathMarkers)
            /\ Get(f, "confidence", DefaultConfidence) < TestPathFloor)
       /\ ~(/\ "category" \in DOMAIN f
            /\ f["category"] = "security"
            /\ ("severity" \notin DOMAIN f \/ f["severity"] # "low")
            /\ HasMarker(file_path, DocPathMarkers))

\* The loop body with both confidence tests inclusive (<= in place of <).
PassesNoise_inclusive(f) ==
    LET file_path == Get(f, "file_path", "")
    IN /\ ~(Get(f, "confidence", DefaultConfidence) <= NoiseFloor)
       /\ ~(/\ HasMarker(file_path, TestPathMarkers)
            /\ Get(f, "confidence", DefaultConfidence) <= TestPathFloor)
       /\ ~(/\ "category" \in DOMAIN f
            /\ f["category"] = "security"
            /\ ("severity" \notin DOMAIN f \/ f["severity"] # "low")
            /\ HasMarker(file_path, DocPathMarkers))

\* One pass of the loop of step 1: TRUE when the finding is appended.
PassesNoise(f) ==
    LET file_path == Get(f, "file_path", "")
    IN /\ ~(Get(f, "confidence", DefaultConfidence) < NoiseFloor)
       /\ ~(/\ HasMarker(file_path, TestPathMarkers)
            /\ Get(f, "confidence", DefaultConfidence) < TestPathFloor)
       /\ ~(/\ "category" \in DOMAIN f
            /\ f["category"] = "security"
            /\ ("severity" \notin DOMAIN f \/ f["severity"] # "low")
            /\ HasMarker(file_path, DocPathMarkers))

\* Step 1: the local filtered_findings of _intelligent_filter_findings
NoiseFilter(fs) == SelectSeq(fs, PassesNoise)

\* The filter without its step 3 (no priority sort).
_intelligent_filter_findings_unprioritized(fs) ==
    IF fs = <<>> THEN fs
    ELSE _group_similar_findings(NoiseFilter(fs))

\* The list handed to synthesize_findings as the call leaves it, kept being
\* the list the noise filter has made of it: the note goes to the dict copy
\* names.
FindingsAfter(fs, kept) ==
    LET written == {copy(b) : b \in BestPlaces(fs, kept)}
    IN IF written \cap (1..Len(fs)) = {} THEN fs
       ELSE [i \in 1..Len(fs) |->
                IF i \in written
                THEN LET group_findings == SimilarGroup(kept, SimilarKey(fs[i]))
                         agents == {Get(group_findings[k], "agent", "Unknown") :
                                        k \in 1..Len(group_findings)}
                     IN [fs[i] EXCEPT
                            !["reasoning"] = @ \o ConfirmedNote(ListOfSet(agents))]
                ELSE fs[i]]

_intelligent_filter_findings(fs) ==
    IF fs = <<>> THEN fs
    ELSE _prioritize_findings(_group_similar_findings(NoiseFilter(fs)))

(***************************************************************************)
(* ResultSynthesizer._group_findings, _group_by_file, _group_by_category   *)
(* A dict of lists is a sequence of (name, findings) in insertion order.   *)
(***************************************************************************)
FileLabel(f) == Get(f, "file_path", "Unknown File")

CategoryLabel(f) == Title(Get(f, "category", "General"))

\* A grouping by file that keeps only the first finding of each file.
_group_by_file_first_only(fs) ==
    LET names == FirstSeen([i \in 1..Len(fs) |-> FileLabel(fs[i])])
    IN [k \in 1..Len(names) |->
            [name |-> names[k],
             findings |-> << (SelectSeq(fs, LAMBDA f : FileLabel(f) = names[k]))[1] >>]]

_group_by_file(fs) ==
    LET names == FirstSeen([i \in 1..Len(fs) |-> FileLabel(fs[i])])
    IN [k \in 1..Len(names) |->
            [name |-> names[k],
             findings |-> SelectSeq(fs, LAMBDA f : FileLabel(f) = names[k])]]

_group_by_category(fs) ==
    LET names == FirstSeen([i \in 1..Len(fs) |-> CategoryLabel(fs[i])])
    IN [k \in 1..Len(names) |->
            [name |-> names[k],
             findings |-> SelectSeq(fs, LAMBDA f : CategoryLabel(f) = names[k])]]

_group_findings(fs, groupBy) ==
    IF groupBy = "file" THEN _group_by_file(fs)
    ELSE IF groupBy = "category" THEN _group_by_category(fs)
    ELSE << [name |-> "All Findings", findings |-> fs] >>

(***************************************************************************)
(* Rendering: _get_category_emoji, _format_finding, _generate_summary,     *)
(* _format_review_comment, _generate_no_issues_comment.  An emoji is       *)
(* written as its name in brackets.                                        *)
(***************************************************************************)
_get_category_emoji(category) ==
    CASE category = "Security" -> "[lock]"
      [] category = "Privacy" -> "[shield]"
      [] category = "Documentation" -> "[page]"
      [] category = "Performance" -> "[zap]"
      [] category = "Style" -> "[art]"
      [] category = "Duplication" -> "[cyclone]"
      [] category = "General" -> "[clipboard]"
      [] category = "Quality" -> "[sparkles]"
      [] OTHER -> "[clipboard]"

\* The first line of a finding's block (the backquotes around the path are
\* written as apostrophes).
LocationLine(f) ==
    LET file_path == Get(f, "file_path", "Unknown")
        line_truthy == "line_number" \in DOMAIN f /\ f["line_number"] # 0
    IN IF line_truthy /\ file_path # "Unknown"
       THEN "- '" \o file_path \o "' (line " \o ToString(f["line_number"]) \o ")"
       ELSE IF file_path # "Unknown" THEN "- '" \o file_path \o "'"
       ELSE "- Unknown location"

_format_finding(f) ==
    << LocationLine(f),
       "  - **" \o Get(f, "finding", "Issue detected") \o "**",
       "    > Reasoning: " \o Get(f, "reasoning", "No reasoning provided"),
       "    > Confidence: " \o Fmt2f(Get(f, "confidence", DefaultConfidence)),
       "    > Agent: " \o Get(f, "agent", "Unknown Agent"),
       "" >>

AllGrouped(grouped) == Flatten([k \in 1..Len(grouped) |-> grouped[k].findings])

Plural(n) == IF n # 1 THEN "s" ELSE ""

\* A summary that gives the count of issues even when it is zero.
_generate_summary_count_always(grouped, total_findings, unique_findings) ==
    "**Summary:** " \o ToString(Len(AllGrouped(grouped)))
        \o " potential issues found."

_generate_summary(grouped, total_findings, unique_findings) ==
    LET all == AllGrouped(grouped)
        total_issues == Len(all)
        file_count == Cardinality({Get(all[i], "file_path", "unknown") :
                                        i \in 1..Len(all)})
        removed == total_findings - unique_findings
    IN IF total_issues = 0 THEN "**Summary:** No issues found! [tada]"
       ELSE "**Summary:** " \o ToString(total_issues) \o " potential issue"
                \o Plural(total_issues) \o " found"
                \o (IF file_count > 1
                    THEN " across " \o ToString(file_count) \o " file"
                             \o Plural(file_count)
                    ELSE "")
                \o "."
                \o (IF total_findings # unique_findings
                    THEN " (" \o ToString(removed) \o " duplicate"
                             \o Plural(removed) \o " removed)"
                    ELSE "")

\* key=lambda x: (x.get('severity', 'medium'), -x.get('confidence', 0))
RenderOrder(a, b) ==
    LET sa == Get(a, "severity", "medium")
        sb == Get(b, "severity", "medium")
    IN \/ StrLess(sa, sb)
       \/ /\ sa = sb
          /\ -Get(a, "confidence", DefaultConfidence)
                < -Get(b, "confidence", DefaultConfidence)

\* A loop that does not skip the empty groups.
RenderedGroups_with_empty(grouped) ==
    [k \in 1..Len(grouped) |->
        [name |-> grouped[k].name,
         findings |->
            LET fs == grouped[k].findings
            IN StableSort(fs,
                    [i, j \in 1..Len(fs) |-> RenderOrder(fs[i], fs[j])])]]

\* The groups the loop renders (empty ones are skipped), each with its
\* sorted_findings.
RenderedGroups(grouped) ==
    LET nonempty == SelectSeq(grouped, LAMBDA g : g.findings # <<>>)
    IN [k \in 1..Len(nonempty) |->
            [name |-> nonempty[k].name,
             findings |->
                LET fs == nonempty[k].findings
                IN StableSort(fs,
                        [i, j \in 1..Len(fs) |-> RenderOrder(fs[i], fs[j])])]]

GroupHeader(group_name) ==
    "**" \o _get_category_emoji(group_name) \o " " \o group_name \o "**"

GroupLines(g) ==
    << GroupHeader(g.name), "" >>
        \o Flatten([i \in 1..Len(g.findings) |-> _format_finding(g.findings[i])])
        \o << "" >>

\* The local lines of _format_review_comment; groups is RenderedGroups(grouped).
ReviewCommentLines(grouped, groups, total_findings, unique_findings) ==
       << "#### [robot] MicroReview Automated Code Review", "",
          _generate_summary(grouped, total_findings, unique_findings), "",
          "---", "" >>
        \o Flatten([k \in 1..Len(groups) |-> GroupLines(groups[k])])
        \o << "---", "",
              "_This is an automated review by MicroReview. Please address any blocking issues before merging._",
              "",
              "*To learn more about MicroReview or suggest new policies, visit our docs.*" >>

_generate_no_issues_comment ==
    "#### [robot] MicroReview Automated Code Review\n\n**Summary:** No issues found! [tada]\n\nAll enabled micro-agents have reviewed the changes and found no policy violations or potential issues.\n\n---\n\n_This is an automated review by MicroReview._\n\n*To learn more about MicroReview or suggest new policies, visit our docs.*"

(***************************************************************************)
(* The findings the model feeds to the synthesizer.                        *)
(***************************************************************************)
Finding(file_path, line_number, finding, reasoning, confidence, category, severity, agent) ==
    [file_path |-> file_path, line_number |-> line_number, finding |-> finding,
     reasoning |-> reasoning, confidence |-> confidence, category |-> category,
     severity |-> severity, agent |-> agent]

AgentA == "HardCodedCredsAgent"
AgentB == "PiiExposureAgent"

LongA == Repeat("x", ReasoningPrefixLen) \o "a"
LongB == Repeat("x", ReasoningPrefixLen) \o "b"

\* One issue, reported three times: twice by AgentA (equal confidence,
\* different reasoning) and once, less confidently, by AgentB in AgentA's words.
P1 == Finding("src/api.py", 5, "7:X", "rA", 90, "security", "high", AgentA)
P2 == Finding("src/api.py", 5, "7:X", "rA", 60, "security", "high", AgentB)
P3 == Finding("src/api.py", 5, "7:X", "rC", 90, "security", "high", AgentA)
\* Another file and line whose path ends in ":5".
P4 == Finding("src/api.py:5", 7, "X", "rQ", 95, "privacy", "medium", AgentB)
\* Two reasonings that differ after their first 100 characters.
P5 == Finding("src/api.py", 9, "Y", LongA, 50, "quality", "critical", AgentA)
P6 == Finding("src/api.py", 9, "Y", LongB, 50, "quality", "critical", AgentB)
\* Test paths: one that shows its marker only once lower-cased, below 0.7, and
\* one at 0.7.
P7 == Finding("Tests/Foo.py", 1, "T", "rT", 50, "style", "medium", AgentA)
P8 == Finding("tests/foo.py", 1, "T", "rT", 70, "style", "medium", AgentA)
\* A security finding in documentation, of severity high and low.
P9 == Finding("README.md", 3, "D", "rD", 95, "security", "high", AgentA)
P10 == Finding("README.md", 3, "D", "rD", 95, "security", "low", AgentB)
\* No line number, category or severity; at and below 0.3.
P11 == [file_path |-> "lib/util.py", finding |-> "Z", reasoning |-> "rZ",
        confidence |-> 30, agent |-> AgentB]
P12 == [file_path |-> "lib/util.py", finding |-> "Z", reasoning |-> "rZ",
        confidence |-> 29, agent |-> AgentB]

\* What synthesize_findings is given: the filter's cases, a merge, two priorities.
ReportPool == {P1, P2, P5, P7, P8, P9, P10, P11, P12}

\* What the helpers are given when called on their own.
HelperPool == {P1, P2, P3, P4, P5, P6, P9, P11}

\* Findings that lack optional fields: Q1 lacks them all, Q2 is Q1's issue
\* seen by an agent, Q3 has a path and a category only.
Q1 == [finding |-> "Z", reasoning |-> "rZ", confidence |-> 80]
Q2 == [finding |-> "Z", reasoning |-> "rY", confidence |-> 80, agent |-> AgentA]
Q3 == [file_path |-> "src/api.py", finding |-> "Z", reasoning |-> "rZ",
       confidence |-> 40, category |-> "security"]
\* Q1's issue again, without a reasoning.
Q4 == [finding |-> "Z", confidence |-> 90, agent |-> AgentB]
\* Confidences above 1.0 and below 0.0.
Q5 == Finding("src/api.py", 5, "V", "rV", 150, "quality", "high", AgentB)
Q6 == Finding("src/api.py", 5, "N", "rN", -20, "quality", "high", AgentB)

\* What synthesize_findings is given by agents that fill findings in loosely.
PartialPool == {Q1, Q2, Q3, Q4, Q5, Q6}

\* What synthesize_findings is given twice.
RerunPool == {P1, P2, P5, P11}

\* Findings with a path and a line, a path alone, an empty path with and
\* without a line, and no path with and without a line.
UnknownPathPool ==
    {[file_path |-> "src/api.py", line_number |-> 3, finding |-> "A",
      reasoning |-> "rA", confidence |-> 90, agent |-> AgentA],
     [file_path |-> "src/db.py", finding |-> "B", reasoning |-> "rB",
      confidence |-> 90, agent |-> AgentA],
     [file_path |-> "", line_number |-> 5, finding |-> "C", reasoning |-> "rC",
      confidence |-> 90, agent |-> AgentA],
     [file_path |-> "", finding |-> "D", reasoning |-> "rD", confidence |-> 90,
      agent |-> AgentA],
     [line_number |-> 7, finding |-> "E", reasoning |-> "rE", confidence |-> 90,
      agent |-> AgentA],
     [finding |-> "F", reasoning |-> "rF", confidence |-> 90, agent |-> AgentA]}

\* The agent names of a pool: f.get('agent', 'Unknown')
AgentsOf(pool) == {Get(f, "agent", "Unknown") : f \in pool}

ListsOf(pool) == UNION {[1..n -> pool] : n \in 0..MaxLen}

Orderings(S) ==
    {p \in [1..Cardinality(S) -> S] : \A a \in S : \E i \in DOMAIN p : p[i] = a}

GroupBySettings == {"file", "category", "none"}

(***************************************************************************)
(* AgentOrchestrator: configuration, exclusion, what the agents return.   *)
(***************************************************************************)
\* pattern.rstrip('/')
RECURSIVE RStripSlash(_)
RStripSlash(pattern) ==
    IF Len(pattern) > 0 /\ SubSeq(pattern, Len(pattern), Len(pattern)) = "/"
    THEN RStripSlash(SubSeq(pattern, 1, Len(pattern) - 1))
    ELSE pattern

\* fnmatch.fnmatch(file_path, pattern), for a pattern that is literal or is
\* a star followed by literal text
FnMatch(file_path, pattern) ==
    IF Len(pattern) > 0 /\ SubSeq(pattern, 1, 1) = "*"
    THEN LET suffix == SubSeq(pattern, 2, Len(pattern))
         IN /\ Len(file_path) >= Len(suffix)
            /\ SubSeq(file_path, Len(file_path) - Len(suffix) + 1, Len(file_path))
                    = suffix
    ELSE file_path = pattern

\* file_path.startswith(prefix)
StartsWith(file_path, prefix) ==
    Len(file_path) >= Len(prefix) /\ Prefix(file_path, Len(prefix)) = prefix

\* The exclusion without its test for directory patterns.
_should_exclude_file_glob_only(file_path, exclude_paths) ==
    \E k \in 1..Len(exclude_paths) : FnMatch(file_path, exclude_paths[k])

_should_exclude_file(file_path, exclude_paths) ==
    \E k \in 1..Len(exclude_paths) :
        \/ FnMatch(file_path, exclude_paths[k])
        \/ StartsWith(file_path, RStripSlash(exclude_paths[k]))

\* MicroReviewConfig, the fields the orchestrator reads
MicroReviewConfig(confidence_threshold, max_findings_per_agent, exclude_paths, agent_config) ==
    [confidence_threshold |-> confidence_threshold,
     max_findings_per_agent |-> max_findings_per_agent,
     exclude_paths |-> exclude_paths,
     agent_config |-> agent_config]

\* The defaults of the dataclass.
DefaultThreshold == 80     \* confidence_threshold: float = 0.8
DefaultMaxFindings == 10   \* max_findings_per_agent: int = 10
DefaultConfig == MicroReviewConfig(DefaultThreshold, DefaultMaxFindings, <<>>, <<>>)

\* The configurations of the model: a global threshold and cap, with or
\* without an exclusion, with or without settings of AgentA's own.
ThresholdLow == 50
ThresholdSettings == {ThresholdLow, DefaultThreshold}
MaxFindingsSettings == {1, 2}
ExcludeSettings == {<<>>, << "docs/" >>}
AgentConfigSettings ==
    {<<>>,
     [a \in {AgentA} |-> [max_findings |-> 1]],
     [a \in {AgentA} |-> [confidence_threshold |-> 90]]}

Configs ==
    {MicroReviewConfig(t, m, e, c) :
        t \in ThresholdSettings, m \in MaxFindingsSettings,
        e \in ExcludeSettings, c \in AgentConfigSettings}

\* The agents the orchestrator has loaded: the keys of self.agents, for an
\* agents package in which the module of each of them resolves.
LoadedAgents == {<< AgentA >>, << AgentA, AgentB >>}

\* The paths of a diff: the keys of file_diffs, each once.
DiffPaths == {"src/api.py", "docs/guide.md"}
FileDiffs ==
    {fd \in UNION {[1..n -> DiffPaths] : n \in 0..MaxFiles} :
        \A i, j \in DOMAIN fd : i # j => fd[i] # fd[j]}

\* What an agent puts in the findings list it returns.
R1 == [finding |-> "X", line_number |-> 1, reasoning |-> "r1", confidence |-> 90]
R2 == [finding |-> "Y", line_number |-> 2, reasoning |-> "r2", confidence |-> 60,
       agent |-> "llm", file_path |-> "a/src/api.py"]
RawPool == {R1, R2}
ForwardResults == UNION {[1..n -> RawPool] : n \in 0..MaxResults}

\* An attribution that leaves alone the agent and the file_path a finding
\* already has.
Attributed_unless_present(f, agent_name, file_path) ==
    [k \in DOMAIN f \cup {"agent", "file_path"} |->
        IF k \in DOMAIN f THEN f[k]
        ELSE IF k = "agent" THEN agent_name
        ELSE file_path]

\* finding["agent"] = agent_name; finding["file_path"] = file_path
Attributed(f, agent_name, file_path) ==
    [k \in DOMAIN f \cup {"agent", "file_path"} |->
        IF k = "agent" THEN agent_name
        ELSE IF k = "file_path" THEN file_path
        ELSE f[k]]

\* The inner loop with a filter that drops a finding at the threshold.
AgentContribution_above_only(cfg, agent_name, file_path, result_findings) ==
    LET agent_config == Get(cfg.agent_config, agent_name, <<>>)
        agent_threshold ==
            Get(agent_config, "confidence_threshold", cfg.confidence_threshold)
        agent_max_findings ==
            Get(agent_config, "max_findings", cfg.max_findings_per_agent)
        passing == SelectSeq(result_findings,
                        LAMBDA f : Get(f, "confidence", 0) > agent_threshold)
        filtered == IF Len(passing) > agent_max_findings
                    THEN SubSeq(passing, 1, agent_max_findings)
                    ELSE passing
    IN [i \in 1..Len(filtered) |->
            [k \in DOMAIN filtered[i] \cup {"agent", "file_path"} |->
                IF k = "agent" THEN agent_name
                ELSE IF k = "file_path" THEN file_path
                ELSE filtered[i][k]]]

\* What one pass of the inner loop extends all_findings with, given the
\* findings of the agent's result.
AgentContribution(cfg, agent_name, file_path, result_findings) ==
    LET agent_config == Get(cfg.agent_config, agent_name, <<>>)
        agent_threshold ==
            Get(agent_config, "confidence_threshold", cfg.confidence_threshold)
        agent_max_findings ==
            Get(agent_config, "max_findings", cfg.max_findings_per_agent)
        passing == SelectSeq(result_findings,
                        LAMBDA f : Get(f, "confidence", 0) >= agent_threshold)
        filtered == IF Len(passing) > agent_max_findings
                    THEN SubSeq(passing, 1, agent_max_findings)
                    ELSE passing
    IN [i \in 1..Len(filtered) |-> Attributed(filtered[i], agent_name, file_path)]

\* One call agent.forward(file_diff, file_path) of the inner loop: the agent,
\* the file, whether the pass raised, and the findings of the result.
ForwardCall(agent_name, file_path, raised, result_findings) ==
    [agent |-> agent_name, file_path |-> file_path, raised |-> raised,
     findings |-> result_findings]

\* No orchestrator is at work.
OrchestratorIdle ==
    /\ config = DefaultConfig
    /\ self_agents = <<>>
    /\ file_diffs = <<>>
    /\ file_index = 0
    /\ agent_index = 0
    /\ all_findings = <<>>
    /\ calls = <<>>

(***************************************************************************)
(* State machine: a ResultSynthesizer is constructed with its config, and  *)
(* one of its methods is called on a list of findings.                     *)
(***************************************************************************)
InitWith(pool) ==
    /\ group_by \in GroupBySettings
    /\ hash_order \in Orderings(AgentsOf(pool))
    /\ findings \in ListsOf(pool)
    /\ pc = "ready"
    /\ arg = <<>>
    /\ ret = <<>>
    /\ noise_filtered = <<>>
    /\ filtered_findings = <<>>
    /\ deduplicated_findings = <<>>
    /\ grouped_findings = <<>>
    /\ rendered = <<>>
    /\ lines = <<>>
    /\ comment = ""
    /\ earlier_comment = ""
    /\ OrchestratorIdle

Init == InitWith(ReportPool)

\* synthesize_findings(findings); a call after restart is the second one on
\* the list.
synthesize_findings ==
    /\ pc \in {"ready", "restarted"}
    /\ IF findings = <<>>
       THEN /\ comment' = _generate_no_issues_comment
            /\ pc' = IF pc = "ready" THEN "no_issues" ELSE "no_issues_again"
            /\ UNCHANGED <<findings, noise_filtered, filtered_findings,
                           deduplicated_findings, grouped_findings, rendered, lines>>
       ELSE \E kept \in {NoiseFilter(findings)} :
           IF MergeRaises(kept)
           THEN \* KeyError leaves _group_similar_findings and synthesize_findings
                /\ pc' = "raised"
                /\ UNCHANGED <<findings, noise_filtered, filtered_findings,
                               deduplicated_findings, grouped_findings, rendered,
                               lines, comment>>
           ELSE /\ noise_filtered' = kept
                /\ filtered_findings' = _intelligent_filter_findings(findings)
                /\ findings' = FindingsAfter(findings, kept)
                /\ deduplicated_findings' = _deduplicate_findings(filtered_findings')
                /\ grouped_findings' = _group_findings(deduplicated_findings', group_by)
                \* _format_review_comment(grouped_findings, len(findings),
                \*                        len(deduplicated_findings))
                /\ rendered' = RenderedGroups(grouped_findings')
                /\ lines' = ReviewCommentLines(grouped_findings', rendered',
                                               Len(findings), Len(deduplicated_findings'))
                /\ comment' = Join("\n", lines')
                /\ pc' = IF pc = "ready" THEN "synthesized" ELSE "synthesized_again"
    /\ UNCHANGED <<group_by, hash_order, arg, ret, earlier_comment>>
    /\ UNCHANGED OrchestratorVars

\* The list and the configuration are handed to synthesize_findings once
\* more, in this process or in another one, whose sets of agent names iterate
\* in an order of their own (str hashes are salted per process).
restart ==
    /\ pc \in {"synthesized", "no_issues"}
    /\ hash_order' \in Orderings(SeqRange(hash_order))
    /\ earlier_comment' = comment
    /\ pc' = "restarted"
    /\ UNCHANGED <<group_by, findings, arg, ret, noise_filtered, filtered_findings,
                   deduplicated_findings, grouped_findings, rendered, lines, comment>>
    /\ UNCHANGED OrchestratorVars

SynthLocals == <<noise_filtered, filtered_findings, deduplicated_findings,
                 grouped_findings, rendered, lines, comment, earlier_comment>>

\* _deduplicate_findings(findings), and then again on what it returned
deduplicate_findings ==
    /\ \/ pc = "ready" /\ arg' = findings /\ pc' = "deduplicated"
       \/ pc = "deduplicated" /\ arg' = ret /\ pc' = "deduplicated_again"
    /\ ret' = _deduplicate_findings(arg')
    /\ UNCHANGED <<group_by, hash_order, findings>>
    /\ UNCHANGED SynthLocals
    /\ UNCHANGED OrchestratorVars

\* _group_similar_findings(findings)
group_similar_findings ==
    /\ pc = "ready"
    /\ arg' = findings
    /\ IF MergeRaises(findings)
       THEN ret' = ret /\ pc' = "raised"
       ELSE ret' = _group_similar_findings(findings) /\ pc' = "merged"
    /\ UNCHANGED <<group_by, hash_order, findings>>
    /\ UNCHANGED SynthLocals
    /\ UNCHANGED OrchestratorVars

\* _group_findings(findings)
group_findings ==
    /\ pc = "ready"
    /\ arg' = findings
    /\ ret' = _group_findings(findings, group_by)
    /\ pc' = "grouped"
    /\ UNCHANGED <<group_by, hash_order, findings>>
    /\ UNCHANGED SynthLocals
    /\ UNCHANGED OrchestratorVars

\* _prioritize_findings(findings)
prioritize_findings ==
    /\ pc = "ready"
    /\ arg' = findings
    /\ ret' = _prioritize_findings(findings)
    /\ pc' = "prioritized"
    /\ UNCHANGED <<group_by, hash_order, findings>>
    /\ UNCHANGED SynthLocals
    /\ UNCHANGED OrchestratorVars

\* A report is synthesized.
Next == synthesize_findings

Spec == Init /\ [][Next]_vars

\* A report is synthesized from findings that need not be well formed.
PartialInit == InitWith(PartialPool)

PartialSpec == PartialInit /\ [][Next]_vars

\* A report is synthesized twice from the same list.
RerunInit == InitWith(RerunPool)

RerunNext ==
    \/ synthesize_findings
    \/ restart

RerunSpec == RerunInit /\ [][RerunNext]_vars

\* The helpers are called on their own.
HelperInit == InitWith(HelperPool)

HelperNext ==
    \/ deduplicate_findings
    \/ group_similar_findings
    \/ group_findings
    \/ prioritize_findings

HelperSpec == HelperInit /\ [][HelperNext]_vars

\* The synthesizer on findings whose path is known, empty or absent: the
\* whole report, or the grouping alone.
UnknownPathInit == InitWith(UnknownPathPool)

UnknownPathNext ==
    \/ synthesize_findings
    \/ group_findings

UnknownPathSpec == UnknownPathInit /\ [][UnknownPathNext]_vars

(***************************************************************************)
(* State machine: an AgentOrchestrator is constructed with its config and  *)
(* its agents, and run_analysis is called on a diff.                       *)
(***************************************************************************)
SynthesizerVars == <<group_by, hash_order, findings, arg, ret, noise_filtered,
                     filtered_findings, deduplicated_findings, grouped_findings,
                     rendered, lines, comment, earlier_comment>>

AnalysisInit ==
    /\ config \in Configs
    /\ self_agents \in LoadedAgents
    /\ file_diffs = <<>>
    /\ file_index = 0
    /\ agent_index = 0
    /\ all_findings = <<>>
    /\ calls = <<>>
    /\ pc = "constructed"
    /\ group_by = "category"
    /\ hash_order = <<>>
    /\ findings = <<>>
    /\ arg = <<>>
    /\ ret = <<>>
    /\ noise_filtered = <<>>
    /\ filtered_findings = <<>>
    /\ deduplicated_findings = <<>>
    /\ grouped_findings = <<>>
    /\ rendered = <<>>
    /\ lines = <<>>
    /\ comment = ""
    /\ earlier_comment = ""

\* run_analysis(pr_diff): all_findings = [], file_diffs is parsed
run_analysis ==
    /\ pc = "constructed"
    /\ file_diffs' \in FileDiffs
    /\ all_findings' = <<>>
    /\ calls' = <<>>
    /\ file_index' = 1
    /\ agent_index' = 1
    /\ pc' = "analysing"
    /\ UNCHANGED <<config, self_agents>>
    /\ UNCHANGED SynthesizerVars

\* The outer loop meets an excluded file: continue
skip_excluded_file ==
    /\ pc = "analysing"
    /\ file_index <= Len(file_diffs)
    /\ _should_exclude_file(file_diffs[file_index], config.exclude_paths)
    /\ file_index' = file_index + 1
    /\ agent_index' = 1
    /\ UNCHANGED <<pc, config, self_agents, file_diffs, all_findings, calls>>
    /\ UNCHANGED SynthesizerVars

\* One pass of the inner loop: the agent returns a result, whose findings are
\* filtered, capped, attributed and appended.
run_agent ==
    /\ pc = "analysing"
    /\ file_index <= Len(file_diffs)
    /\ ~_should_exclude_file(file_diffs[file_index], config.exclude_paths)
    /\ agent_index <= Len(self_agents)
    /\ \E result_findings \in ForwardResults :
            /\ calls' = Append(calls, ForwardCall(self_agents[agent_index],
                                        file_diffs[file_index], FALSE, result_findings))
            /\ all_findings' =
                all_findings \o AgentContribution(config, self_agents[agent_index],
                                    file_diffs[file_index], result_findings)
    /\ agent_index' = agent_index + 1
    /\ UNCHANGED <<pc, config, self_agents, file_diffs, file_index>>
    /\ UNCHANGED SynthesizerVars

\* A pass of the inner loop whose exception leaves run_analysis.
agent_raises_uncaught ==
    /\ pc = "analysing"
    /\ file_index <= Len(file_diffs)
    /\ ~_should_exclude_file(file_diffs[file_index], config.exclude_paths)
    /\ agent_index <= Len(self_agents)
    /\ calls' = Append(calls, ForwardCall(self_agents[agent_index],
                                file_diffs[file_index], TRUE, <<>>))
    /\ pc' = "raised"
    /\ UNCHANGED <<config, self_agents, file_diffs, file_index, agent_index, all_findings>>
    /\ UNCHANGED SynthesizerVars

\* One pass of the inner loop in which agent.forward raises: the exception is
\* caught and printed.
agent_raises ==
    /\ pc = "analysing"
    /\ file_index <= Len(file_diffs)
    /\ ~_should_exclude_file(file_diffs[file_index], config.exclude_paths)
    /\ agent_index <= Len(self_agents)
    /\ calls' = Append(calls, ForwardCall(self_agents[agent_index],
                                file_diffs[file_index], TRUE, <<>>))
    /\ agent_index' = agent_index + 1
    /\ UNCHANGED <<pc, config, self_agents, file_diffs, file_index, all_findings>>
    /\ UNCHANGED SynthesizerVars

\* The inner loop is over: the outer loop goes to the next file.
next_file ==
    /\ pc = "analysing"
    /\ file_index <= Len(file_diffs)
    /\ ~_should_exclude_file(file_diffs[file_index], config.exclude_paths)
    /\ agent_index > Len(self_agents)
    /\ file_index' = file_index + 1
    /\ agent_index' = 1
    /\ UNCHANGED <<pc, config, self_agents, file_diffs, all_findings, calls>>
    /\ UNCHANGED SynthesizerVars

\* The outer loop is over: return all_findings
return_all_findings ==
    /\ pc = "analysing"
    /\ file_index > Len(file_diffs)
    /\ pc' = "returned"
    /\ UNCHANGED OrchestratorVars
    /\ UNCHANGED SynthesizerVars

AnalysisNext ==
    \/ run_analysis
    \/ skip_excluded_file
    \/ run_agent
    \/ agent_raises
    \/ next_file
    \/ return_all_findings

AnalysisSpec == AnalysisInit /\ [][AnalysisNext]_vars

(***************************************************************************)
(* State machine: an AgentOrchestrator is constructed with exclude_paths   *)
(* and _should_exclude_file is called on a path.                           *)
(***************************************************************************)
MaxPatterns == 2

ExcludePatterns == {"src/", "docs", "*.md", "", "/", "src/x.py"}
PatternLists == UNION {[1..n -> ExcludePatterns] : n \in 0..MaxPatterns}
ExcludePaths == {"src/x.py", "src_old/x.py", "docs/guide.md", "lib/docs.py", "README.md"}

\* No synthesizer is at work.
SynthesizerIdle ==
    /\ group_by = "category"
    /\ hash_order = <<>>
    /\ findings = <<>>
    /\ noise_filtered = <<>>
    /\ filtered_findings = <<>>
    /\ deduplicated_findings = <<>>
    /\ grouped_findings = <<>>
    /\ rendered = <<>>
    /\ lines = <<>>
    /\ comment = ""
    /\ earlier_comment = ""

ExcludeInit ==
    /\ \E patterns \in PatternLists :
            config = MicroReviewConfig(DefaultThreshold, DefaultMaxFindings, patterns, <<>>)
    /\ \E file_path \in ExcludePaths : arg = <<file_path>>
    /\ ret = <<>>
    /\ pc = "constructed"
    /\ self_agents = <<>>
    /\ file_diffs = <<>>
    /\ file_index = 0
    /\ agent_index = 0
    /\ all_findings = <<>>
    /\ calls = <<>>
    /\ SynthesizerIdle

\* _should_exclude_file(file_path)
should_exclude_file ==
    /\ pc = "constructed"
    /\ ret' = _should_exclude_file(arg[1], config.exclude_paths)
    /\ pc' = "exclusion_decided"
    /\ UNCHANGED <<arg, group_by, hash_order, findings>>
    /\ UNCHANGED SynthLocals
    /\ UNCHANGED OrchestratorVars

ExcludeSpec == ExcludeInit /\ [][should_exclude_file]_vars

(***************************************************************************)
(* config/loader.py: the MicroReviewConfig dataclass and ConfigLoader.      *)
(* A config object is a record of its seven fields; keyword arguments and   *)
(* the parsed YAML mapping are dicts of some of them.                       *)
(***************************************************************************)
ConfigFieldNames ==
    {"enabled_agents", "confidence_threshold", "group_by", "max_findings_per_agent",
     "exclude_paths", "comment_mode", "agent_config"}

\* The field defaults of the dataclass: MicroReviewConfig()
DataclassDefaults ==
    [enabled_agents |-> <<>>,
     confidence_threshold |-> DefaultThreshold,
     group_by |-> "category",
     max_findings_per_agent |-> DefaultMaxFindings,
     exclude_paths |-> <<>>,
     comment_mode |-> "update",
     agent_config |-> <<>>]

\* __post_init__ raises ValueError
PostInitRaises(c) ==
    \/ ~(0 <= c.confidence_threshold /\ c.confidence_threshold <= 100)
    \/ c.group_by \notin {"file", "category", "none"}
    \/ c.comment_mode \notin {"update", "append"}
    \/ c.max_findings_per_agent <= 0

\* The fields after MicroReviewConfig(**kwargs) has assigned them, before
\* __post_init__ runs.
FieldsFrom(kwargs) ==
    [k \in ConfigFieldNames |->
        IF k \in DOMAIN kwargs THEN kwargs[k] ELSE DataclassDefaults[k]]

\* _parse_config(config_data): config = MicroReviewConfig(), then one
\* assignment per key present in the data.  float() and int() are applied to
\* numbers, hundredths and whole numbers here, which they leave as they are.
\* No assignment runs __post_init__ again.
_parse_config(config_data) ==
    IF PostInitRaises(DataclassDefaults)
    THEN [raised |-> "ValueError"]
    ELSE [raised |-> "",
          config |-> [k \in ConfigFieldNames |->
                        IF k \in DOMAIN config_data
                        THEN config_data[k]
                        ELSE DataclassDefaults[k]]]

_get_default_config ==
    [enabled_agents |-> << "HardCodedCredsAgent" >>,
     confidence_threshold |-> 80,
     group_by |-> "category",
     max_findings_per_agent |-> 10,
     exclude_paths |-> << "tests/", "docs/", "*.md" >>,
     comment_mode |-> "update",
     agent_config |-> <<>>]

\* load_config(config_path): what it returns or raises, for a path that does
\* not exist, a file that is not YAML, and a file that parses to config_data.
LoadConfig(file, config_data) ==
    IF file = "missing" THEN [raised |-> "", config |-> _get_default_config]
    ELSE IF file = "invalid_yaml" THEN [raised |-> "YAMLError"]
    ELSE _parse_config(config_data)

\* The values a keyword argument or a key of the YAML mapping is given.
SettingValues ==
    [confidence_threshold : {0 - 10, 0, 100, 150},
     group_by : {"file", "bogus"},
     comment_mode : {"append", "replace"},
     max_findings_per_agent : {0, 5}]

\* Every choice of some of the four validated settings.
ConfigDatas ==
    {[k \in keys |-> full[k]] :
        full \in SettingValues,
        keys \in SUBSET {"confidence_threshold", "group_by", "comment_mode",
                         "max_findings_per_agent"}}

ConfigFiles == {"missing", "invalid_yaml", "yaml"}

(***************************************************************************)
(* State machine: a config object is asked for, from the constructor or    *)
(* from ConfigLoader.load_config.                                          *)
(***************************************************************************)
ConfigInit ==
    /\ \/ \E kwargs \in ConfigDatas :
                arg = [call |-> "MicroReviewConfig", file |-> "", config_data |-> kwargs]
       \/ \E file \in ConfigFiles, config_data \in ConfigDatas :
                /\ file # "yaml" => config_data = <<>>
                /\ arg = [call |-> "load_config", file |-> file,
                          config_data |-> config_data]
    /\ ret = <<>>
    /\ pc = "ready"
    /\ OrchestratorIdle
    /\ SynthesizerIdle

\* MicroReviewConfig(**kwargs)
construct_config ==
    /\ pc = "ready"
    /\ arg.call = "MicroReviewConfig"
    /\ ret' = IF PostInitRaises(FieldsFrom(arg.config_data))
              THEN [raised |-> "ValueError"]
              ELSE [raised |-> "", config |-> FieldsFrom(arg.config_data)]
    /\ pc' = "constructor_done"
    /\ UNCHANGED <<arg, group_by, hash_order, findings>>
    /\ UNCHANGED SynthLocals
    /\ UNCHANGED OrchestratorVars

\* ConfigLoader().load_config(config_path)
load_config ==
    /\ pc = "ready"
    /\ arg.call = "load_config"
    /\ ret' = LoadConfig(arg.file, arg.config_data)
    /\ pc' = "load_config_done"
    /\ UNCHANGED <<arg, group_by, hash_order, findings>>
    /\ UNCHANGED SynthLocals
    /\ UNCHANGED OrchestratorVars

ConfigNext ==
    \/ construct_config
    \/ load_config

ConfigSpec == ConfigInit /\ [][ConfigNext]_vars

(***************************************************************************)
(* AgentOrchestrator._load_agents: from a class name to a module of the    *)
(* agents package.                                                         *)
(***************************************************************************)
Digits == "0123456789"

\* [A-Z], [a-z] and [a-z0-9] of the regular expressions
IsUpper(c) == IndexIn(UpperChars, c) # 0
IsLower(c) == IndexIn(LowerChars, c) # 0
IsLowerOrDigit(c) == IsLower(c) \/ IndexIn(Digits, c) # 0

\* The length of the run of lower-case letters of s that starts at i: [a-z]+
\* is greedy.
RECURSIVE LowerRun(_, _)
LowerRun(s, i) ==
    IF i <= Len(s) /\ IsLower(SubSeq(s, i, i)) THEN 1 + LowerRun(s, i + 1) ELSE 0

\* re.sub('(.)([A-Z][a-z]+)', r'\1_\2', s): matches are taken from the left
\* and do not overlap.
RECURSIVE SubWordBreaks(_)
SubWordBreaks(s) ==
    IF s = "" THEN ""
    ELSE IF Len(s) >= 3 /\ IsUpper(SubSeq(s, 2, 2)) /\ IsLower(SubSeq(s, 3, 3))
    THEN LET last == 2 + LowerRun(s, 3)
         IN SubSeq(s, 1, 1) \o "_" \o SubSeq(s, 2, last)
                \o SubWordBreaks(SubSeq(s, last + 1, Len(s)))
    ELSE SubSeq(s, 1, 1) \o SubWordBreaks(SubSeq(s, 2, Len(s)))

\* re.sub('([a-z0-9])([A-Z])', r'\1_\2', s)
RECURSIVE SubCaseBreaks(_)
SubCaseBreaks(s) ==
    IF s = "" THEN ""
    ELSE IF Len(s) >= 2 /\ IsLowerOrDigit(SubSeq(s, 1, 1)) /\ IsUpper(SubSeq(s, 2, 2))
    THEN SubSeq(s, 1, 1) \o "_" \o SubSeq(s, 2, 2)
            \o SubCaseBreaks(SubSeq(s, 3, Len(s)))
    ELSE SubSeq(s, 1, 1) \o SubCaseBreaks(SubSeq(s, 2, Len(s)))

\* s.endswith(suffix)
EndsWith(s, suffix) ==
    Len(s) >= Len(suffix) /\ SubSeq(s, Len(s) - Len(suffix) + 1, Len(s)) = suffix

\* s.replace(old, new), for a non-empty old
RECURSIVE Replace(_, _, _)
Replace(s, old, new) ==
    IF s = "" THEN ""
    ELSE IF StartsWith(s, old)
    THEN new \o Replace(SubSeq(s, Len(old) + 1, Len(s)), old, new)
    ELSE SubSeq(s, 1, 1) \o Replace(SubSeq(s, 2, Len(s)), old, new)

_agent_name_to_module(agent_name) ==
    LET module_name == Lower(SubCaseBreaks(SubWordBreaks(agent_name)))
    IN IF EndsWith(module_name, "_creds_agent")
       THEN Replace(module_name, "_creds_agent", "_creds")
       ELSE module_name

\* The modules of the agents package and the classes each defines.
AgentsPackage ==
    [hard_coded_creds |-> {"MockDSPyModule", "HardCodedCredsAgent"},
     hard_coded_creds_dspy |-> {"CredentialAnalysisSignature", "HardCodedCredsAgent"},
     pii_exposure |-> {"MockDSPyModule", "PiiExposureAgent"},
     github_actions_security |-> {"MockDSPyModule", "GitHubActionsSecurityAgent"}]

\* importlib.import_module and getattr both succeed
Resolves(agent_name) ==
    LET module_name == _agent_name_to_module(agent_name)
    IN /\ module_name \in DOMAIN AgentsPackage
       /\ agent_name \in AgentsPackage[module_name]

\* The keys of self.agents after _load_agents, in insertion order.
_load_agents(enabled_agents) ==
    FirstSeen(SelectSeq(enabled_agents, Resolves))

MaxEnabled == 3

EnabledNames ==
    {"HardCodedCredsAgent", "PiiExposureAgent", "GitHubActionsSecurityAgent",
     "NoSuchAgent"}
EnabledLists == UNION {[1..n -> EnabledNames] : n \in 0..MaxEnabled}

(***************************************************************************)
(* State machine: AgentOrchestrator(config) is constructed.                *)
(***************************************************************************)
LoadInit ==
    /\ \E enabled_agents \in EnabledLists :
            config = FieldsFrom([enabled_agents |-> enabled_agents])
    /\ self_agents = <<>>
    /\ pc = "ready"
    /\ file_diffs = <<>>
    /\ file_index = 0
    /\ agent_index = 0
    /\ all_findings = <<>>
    /\ calls = <<>>
    /\ arg = <<>>
    /\ ret = <<>>
    /\ SynthesizerIdle

\* __init__(config): self.agents = {}; self._load_agents()
construct_orchestrator ==
    /\ pc = "ready"
    /\ self_agents' = _load_agents(config.enabled_agents)
    /\ pc' = "constructed"
    /\ UNCHANGED <<config, file_diffs, file_index, agent_index, all_findings, calls>>
    /\ UNCHANGED SynthesizerVars

LoadSpec == LoadInit /\ [][construct_orchestrator]_vars

(***************************************************************************)
(* What the claims speak of.                                               *)
(***************************************************************************)
\* (filePath, lineNumber, findingText) of a finding; an absent line number is
\* the empty tuple.
Triple(f) ==
    << Get(f, "file_path", ""),
       IF "line_number" \in DOMAIN f THEN << f["line_number"] >> ELSE << >>,
       Get(f, "finding", "") >>

\* severityWeight(severity) x confidence, in hundredths
ClaimScore(f) ==
    LET severity == Get(f, "severity", "medium")
        weight == CASE severity = "critical" -> 4
                    [] severity = "high" -> 3
                    [] severity = "medium" -> 2
                    [] severity = "low" -> 1
    IN weight * f["confidence"]

\* C1: in every rendered group of the report, a finding with the greater
\* severityWeight x confidence comes before one with the smaller.
C1_PriorityOrderInGroup ==
    pc = "synthesized" =>
        \A k \in 1..Len(rendered) :
            LET fs == rendered[k].findings
            IN \A i, j \in 1..Len(fs) :
                    ClaimScore(fs[i]) > ClaimScore(fs[j]) => i < j

StatedDrop(f, path) ==
    \/ f["confidence"] < 30
    \/ /\ \E m \in {"test", "spec", "__test__", ".test."} : Contains(path, m)
       /\ f["confidence"] < 70
    \/ /\ Get(f, "category", "") = "security"
       /\ Get(f, "severity", "") # "low"
       /\ \E m \in {"readme", "doc", ".md"} : Contains(path, m)

\* The members of the group of triple t in fs, in input order.
TripleGroup(fs, t) == SelectSeq(fs, LAMBDA f : Triple(f) = t)

\* The first member of group having the group's maximum confidence.
FirstOfMax(group) ==
    LET top == CHOOSE c \in {group[i]["confidence"] : i \in 1..Len(group)} :
                    \A i \in 1..Len(group) : group[i]["confidence"] <= c
        at == CHOOSE i \in 1..Len(group) :
                    /\ group[i]["confidence"] = top
                    /\ \A j \in 1..(i - 1) : group[j]["confidence"] # top
    IN group[at]

\* The distinct agent names of a group.
GroupAgents(group) == {Get(group[i], "agent", "Unknown") : i \in 1..Len(group)}

\* out is member with, at most, something appended to its reasoning.
DerivedFrom(out, member) ==
    /\ DOMAIN out = DOMAIN member
    /\ \A field \in DOMAIN member \ {"reasoning"} : out[field] = member[field]
    /\ Len(out["reasoning"]) >= Len(member["reasoning"])
    /\ Prefix(out["reasoning"], Len(member["reasoning"])) = member["reasoning"]

\* C3: for every group of input findings sharing (filePath, lineNumber,
\* findingText), _group_similar_findings returns a finding of that triple
\* whose confidence is the greatest of the group and which is derived from the
\* first member, in input order, having that confidence.
C3_MaxConfidenceFirstSeen ==
    pc = "merged" =>
        \A i \in 1..Len(arg) :
            LET group == TripleGroup(arg, Triple(arg[i]))
                best == FirstOfMax(group)
            IN Cardinality({k \in 1..Len(ret) :
                                /\ Triple(ret[k]) = Triple(arg[i])
                                /\ ret[k]["confidence"] = best["confidence"]
                                /\ DerivedFrom(ret[k], best)}) = 1

\* C4: a finding returned by _group_similar_findings carries a corroboration
\* note, after its representative's reasoning, exactly when the input findings
\* of its (filePath, lineNumber, findingText) carry more than one distinct
\* agent name; the note gives the number of those names and each of them once.
C4_CorroborationNote ==
    pc = "merged" =>
        \A k \in 1..Len(ret) :
            LET group == TripleGroup(arg, Triple(ret[k]))
                names == GroupAgents(group)
            IN /\ group # <<>>
               /\ IF Cardinality(names) > 1
                  THEN \E order \in Orderings(names) :
                          ret[k]["reasoning"] =
                              FirstOfMax(group)["reasoning"]
                                  \o " (Confirmed by " \o ToString(Cardinality(names))
                                  \o " agents: " \o Join(", ", order) \o ")"
                  ELSE ret[k]["reasoning"] = FirstOfMax(group)["reasoning"]

\* C5: _group_similar_findings returns exactly one finding for each distinct
\* (filePath, lineNumber, findingText) of its input, in first-seen order of
\* the triples.
C5_OnePerTriple ==
    pc = "merged" =>
        [k \in 1..Len(ret) |-> Triple(ret[k])]
            = FirstSeen([i \in 1..Len(arg) |-> Triple(arg[i])])

\* The indexes in report of the first lines of finding blocks.
BlockStarts(report) == {i \in 1..Len(report) : Prefix(report[i], 2) = "- "}

\* C6: every finding block of the report returned by synthesize_findings is
\* the block of some input finding (same filePath, lineNumber, findingText)
\* that none of the three noise rules drops.
C6_RenderedPassNoise ==
    pc = "synthesized" =>
        \A i \in BlockStarts(lines) :
            \E n \in 1..Len(findings) :
                LET f == findings[n]
                IN /\ ~StatedDrop(f, f["file_path"])
                   /\ lines[i] = LocationLine(f)
                   /\ lines[i + 1] = "  - **" \o f["finding"] \o "**"

\* A report with a finding block, made from an input of which the noise rules
\* drop a finding.
C6_Witness ==
    /\ pc = "synthesized"
    /\ BlockStarts(lines) # {}
    /\ \E n \in 1..Len(findings) : StatedDrop(findings[n], findings[n]["file_path"])

\* C7 as stated: the noise filter drops a finding exactly when (1), (2) or (3)
\* holds, the markers being sought in filePath as it is written.
C7_MarkersInPathAsWritten ==
    pc = "synthesized" =>
        noise_filtered =
            SelectSeq(findings, LAMBDA f : ~StatedDrop(f, f["file_path"]))

\* C7, amended: the noise filter drops a finding exactly when (1), (2) or (3)
\* holds, the markers being sought in the lower-cased filePath.
C7_MarkersInLoweredPath ==
    pc = "synthesized" =>
        noise_filtered =
            SelectSeq(findings, LAMBDA f : ~StatedDrop(f, Lower(f["file_path"])))

\* The filter has dropped a finding whose path shows a marker only once
\* lower-cased, and has kept another finding.
C7_Witness ==
    /\ pc = "synthesized"
    /\ noise_filtered # <<>>
    /\ \E n \in 1..Len(findings) :
            LET f == findings[n]
            IN /\ ~StatedDrop(f, f["file_path"])
               /\ StatedDrop(f, Lower(f["file_path"]))
               /\ \A k \in 1..Len(noise_filtered) : noise_filtered[k] # f

\* The string two findings must share to be duplicates of each other.
ClassOf(f) ==
    Get(f, "file_path", "") \o "|" \o LineStr(f) \o "|" \o Get(f, "finding", "")
        \o "|" \o Prefix(Get(f, "reasoning", ""), 100)

\* The indexes of the findings of fs that are the first of their class.
FirstOfClass(fs) ==
    {i \in 1..Len(fs) : \A j \in 1..(i - 1) : ClassOf(fs[j]) # ClassOf(fs[i])}

\* C8: _deduplicate_findings returns the sub-sequence of its input made of the
\* first finding of every duplicate class, in input order.
C8_FirstOfEachClass ==
    pc = "deduplicated" =>
        LET firsts == FirstOfClass(arg)
        IN /\ Len(ret) = Cardinality(firsts)
           /\ \A k \in 1..Len(ret) :
                \E i \in firsts :
                    /\ Cardinality({j \in firsts : j <= i}) = k
                    /\ ret[k] = arg[i]

\* A deduplication that has discarded a later member of a class and kept the
\* first findings of two classes.
C8_Witness ==
    /\ pc = "deduplicated"
    /\ Len(arg) = 3
    /\ Len(ret) = 2
    /\ ClassOf(arg[1]) # ClassOf(arg[2])
    /\ ClassOf(arg[3]) = ClassOf(arg[1])

\* filePath, lineNumber, findingText and the whole reasoning are the same.
SameFourFields(a, b) ==
    /\ Triple(a) = Triple(b)
    /\ Get(a, "reasoning", "") = Get(b, "reasoning", "")

\* C9 as stated: _deduplicate_findings keeps every finding that no earlier
\* finding of the input equals in filePath, lineNumber, findingText and the
\* whole reasoning.
C9_WholeReasoning ==
    pc = "deduplicated" =>
        \A i \in 1..Len(arg) :
            (\A j \in 1..(i - 1) : ~SameFourFields(arg[j], arg[i]))
                => \E k \in 1..Len(ret) : ret[k] = arg[i]

\* C9, amended: _deduplicate_findings keeps every finding whose string
\* filePath|lineNumber|findingText|first 100 characters of reasoning is not
\* the string of an earlier finding of the input.
C9_ReasoningPrefix ==
    pc = "deduplicated" =>
        \A i \in 1..Len(arg) :
            (\A j \in 1..(i - 1) : ClassOf(arg[j]) # ClassOf(arg[i]))
                => \E k \in 1..Len(ret) : ret[k] = arg[i]

\* A deduplication that has discarded a finding whose reasoning differs from
\* every earlier one's, but only after the 100th character, and has kept two
\* findings.
C9_Witness ==
    /\ pc = "deduplicated"
    /\ \E i \in 1..Len(arg) :
            /\ \A j \in 1..(i - 1) : ~SameFourFields(arg[j], arg[i])
            /\ \A k \in 1..Len(ret) : ret[k] # arg[i]
    /\ Len(ret) >= 2

\* C10: deduplicating what _deduplicate_findings returned changes nothing.
C10_Idempotent ==
    pc = "deduplicated_again" => ret = arg

\* A second deduplication of a list the first one had shortened to two findings.
C10_Witness ==
    /\ pc = "deduplicated_again"
    /\ Len(arg) < Len(findings)
    /\ Len(ret) = 2

\* C11: _group_findings partitions its input: the groups' findings are
\* pairwise disjoint, together they are the input's findings, and every group
\* lists its findings as often and in the order the input does.
C11_GroupsPartitionInput ==
    pc = "grouped" =>
        /\ \A k, l \in 1..Len(ret) :
                k # l => SeqRange(ret[k].findings) \cap SeqRange(ret[l].findings) = {}
        /\ UNION {SeqRange(ret[k].findings) : k \in 1..Len(ret)} = SeqRange(arg)
        /\ \A k \in 1..Len(ret) :
                ret[k].findings =
                    SelectSeq(arg, LAMBDA f : f \in SeqRange(ret[k].findings))

\* A grouping into several groups, one of them of several findings.
C11_Witness ==
    /\ pc = "grouped"
    /\ Len(ret) >= 2
    /\ \E k \in 1..Len(ret) : Len(ret[k].findings) >= 2

\* C12 as stated: the mapping _group_findings returns to synthesize_findings
\* has no group whose list of findings is empty.
C12_NoEmptyGroupInMapping ==
    pc = "synthesized" =>
        \A k \in 1..Len(grouped_findings) : grouped_findings[k].findings # <<>>

\* C12, amended: grouped by file or by category the mapping has no empty
\* group; otherwise it is the one group All Findings, empty when nothing is
\* left to group; and the renderer skips every empty group, so that the report
\* has no header of one.
C12_NoEmptyGroupRendered ==
    pc = "synthesized" =>
        /\ group_by \in {"file", "category"} =>
                \A k \in 1..Len(grouped_findings) :
                    grouped_findings[k].findings # <<>>
        /\ group_by \notin {"file", "category"} =>
                grouped_findings =
                    << [name |-> "All Findings", findings |-> deduplicated_findings] >>
        /\ \A k \in 1..Len(rendered) : rendered[k].findings # <<>>
        /\ \A k \in 1..Len(grouped_findings) :
                grouped_findings[k].findings = <<>> =>
                    \A i \in 1..Len(lines) :
                        lines[i] # "**[clipboard] " \o grouped_findings[k].name \o "**"

\* A report made from a non-empty input of which nothing is left, with the
\* empty group All Findings in the mapping.
C12_Witness ==
    /\ pc = "synthesized"
    /\ findings # <<>>
    /\ grouped_findings = << [name |-> "All Findings", findings |-> <<>>] >>

\* C13: _prioritize_findings returns its input rearranged so that
\* severityWeight x confidence never increases, findings of equal score
\* staying in their input order.
C13_StableByScoreDescending ==
    pc = "prioritized" =>
        \E order \in Orderings(1..Len(arg)) :
            /\ ret = [k \in 1..Len(arg) |-> arg[order[k]]]
            /\ \A k, l \in 1..Len(arg) :
                    k < l =>
                        \/ ClaimScore(arg[order[k]]) > ClaimScore(arg[order[l]])
                        \/ /\ ClaimScore(arg[order[k]]) = ClaimScore(arg[order[l]])
                           /\ order[k] < order[l]

\* A prioritization that has moved a high finding of confidence 0.95 before a
\* critical one of confidence 0.5, and has kept two findings of equal score in
\* their order.
C13_Witness ==
    /\ pc = "prioritized"
    /\ Len(arg) = 3
    /\ Get(arg[1], "severity", "") = "critical" /\ arg[1]["confidence"] = 50
    /\ Get(ret[1], "severity", "") = "high" /\ ret[1]["confidence"] = 95
    /\ ClaimScore(ret[2]) = ClaimScore(ret[3])
    /\ ret[2] # ret[3]

\* C14: when the input list is empty or the noise filter drops every finding
\* of it, the string synthesize_findings returns has the No issues found
\* summary, no group header and no finding block.
C14_NoIssuesReport ==
    (/\ pc \in {"no_issues", "synthesized"}
     /\ \A n \in 1..Len(findings) :
            StatedDrop(findings[n], Lower(Get(findings[n], "file_path", ""))))
        => /\ Contains(comment, "**Summary:** No issues found")
           /\ ~Contains(comment, "\n**[")
           /\ ~Contains(comment, "\n- ")

\* A report made from several findings, all of them dropped by the filter.
C14_Witness ==
    /\ pc = "synthesized"
    /\ Len(findings) >= 2
    /\ noise_filtered = <<>>
    /\ Contains(comment, "No issues found")

\* C15: in a report that lists an issue, the summary ends with
\* (N duplicate(s) removed) exactly when N > 0, N being the number of findings
\* that passed the noise filter and were discarded by the merge or by the
\* exact deduplication.
C15_DuplicatesRemovedCount ==
    (pc = "synthesized" /\ deduplicated_findings # <<>>) =>
        LET N == Len(noise_filtered) - Len(deduplicated_findings)
        IN IF N > 0
           THEN Contains(lines[3],
                    " (" \o ToString(N) \o " duplicate"
                        \o (IF N = 1 THEN "" ELSE "s") \o " removed)")
           ELSE ~Contains(lines[3], "removed)")

\* The fields a finding must have; lineNumber, filePath, category, severity
\* and agentName are optional.
RequiredFields == {"finding", "reasoning", "confidence"}

\* The first line of the block of f, with an absent path shown as an unknown
\* location (the backquotes are written as apostrophes).
StatedLocation(f) ==
    IF "file_path" \notin DOMAIN f THEN "- Unknown location"
    ELSE IF "line_number" \notin DOMAIN f THEN "- '" \o f["file_path"] \o "'"
    ELSE "- '" \o f["file_path"] \o "' (line "
            \o ToString(f["line_number"]) \o ")"

\* C16: given findings that lack optional fields only, synthesize_findings
\* raises nothing and returns a report, in which a finding without path is at
\* an unknown location, one without agent is of an unknown agent, one without
\* category is in group General, and one without severity ranks as medium.
C16_MissingFieldsDefaulted ==
    (/\ pc # "ready"
     /\ findings # <<>>
     /\ \A n \in 1..Len(findings) : RequiredFields \subseteq DOMAIN findings[n])
        => /\ pc = "synthesized"
           /\ \A k \in 1..Len(rendered) :
                \A m \in 1..Len(rendered[k].findings) :
                    LET f == rendered[k].findings[m]
                    IN /\ \E i \in BlockStarts(lines) :
                            /\ lines[i] = StatedLocation(f)
                            /\ lines[i + 1] = "  - **" \o f["finding"] \o "**"
                            /\ lines[i + 4] =
                                    "    > Agent: "
                                        \o Get(f, "agent", "Unknown Agent")
                       /\ (group_by = "category" /\ "category" \notin DOMAIN f)
                            => rendered[k].name = "General"
           /\ \A i, j \in 1..Len(filtered_findings) :
                i < j => ClaimScore(filtered_findings[i])
                            >= ClaimScore(filtered_findings[j])

\* A report with a finding that has none of the optional fields and was
\* found by two agents, ranked before a finding of lower score.
C16_Witness ==
    /\ pc = "synthesized"
    /\ \A n \in 1..Len(findings) : RequiredFields \subseteq DOMAIN findings[n]
    /\ Len(filtered_findings) = 2
    /\ DOMAIN filtered_findings[1] = RequiredFields
    /\ Contains(filtered_findings[1]["reasoning"], "Confirmed by 2 agents")
    /\ findings[1] = filtered_findings[2]

\* C17: every confidence the report of synthesize_findings shows lies in
\* [0.00, 1.00].
C17_ShownConfidenceInRange ==
    pc = "synthesized" =>
        \A i \in 1..Len(lines) :
            Prefix(lines[i], 18) = "    > Confidence: " =>
                \E c \in 0..100 : lines[i] = "    > Confidence: " \o Fmt2f(c)

\* C18: a call of synthesize_findings leaves its list of findings as it was,
\* and every finding it reports is a finding of the list with, at most,
\* something appended to its reasoning.
C18_InputUnchanged ==
    [][(pc = "ready" /\ pc' = "synthesized") =>
            /\ findings' = findings
            /\ \A k \in 1..Len(deduplicated_findings') :
                    \E n \in 1..Len(findings) :
                        DerivedFrom(deduplicated_findings'[k], findings[n])]_vars

\* A report with a finding that is a derived copy: the list does not have it.
C18_Witness ==
    /\ pc = "synthesized"
    /\ Len(findings) >= 2
    /\ \E k \in 1..Len(deduplicated_findings) :
            /\ \A n \in 1..Len(findings) : findings[n] # deduplicated_findings[k]
            /\ \E n \in 1..Len(findings) :
                    DerivedFrom(deduplicated_findings[k], findings[n])

\* C19: a second call of synthesize_findings on an equal list under an equal
\* configuration returns the string the first call returned.
C19_SameStringAgain ==
    pc \in {"synthesized_again", "no_issues_again"} => comment = earlier_comment

\* The cap of an agent: its agent_config max_findings when configured,
\* otherwise max_findings_per_agent.
CapOf(agent_name) ==
    IF /\ agent_name \in DOMAIN config.agent_config
       /\ "max_findings" \in DOMAIN config.agent_config[agent_name]
    THEN config.agent_config[agent_name]["max_findings"]
    ELSE config.max_findings_per_agent

\* C20: the list run_analysis returns has, for every agent, at most as many
\* findings attributed to that agent as the agent's cap.
C20_AtMostCapPerAgent ==
    pc = "returned" =>
        \A a \in SeqRange(self_agents) :
            Cardinality({i \in 1..Len(all_findings) : all_findings[i]["agent"] = a})
                <= CapOf(a)

\* The effective threshold of an agent: its agent_config confidence_threshold
\* when configured, otherwise the global confidence_threshold.
ThresholdOf(agent_name) ==
    IF /\ agent_name \in DOMAIN config.agent_config
       /\ "confidence_threshold" \in DOMAIN config.agent_config[agent_name]
    THEN config.agent_config[agent_name]["confidence_threshold"]
    ELSE config.confidence_threshold

\* The findings of the calls that did not raise, each with the agent and the
\* file of its call.
Produced ==
    {<<c, n>> \in (1..Len(calls)) \X (1..MaxResults + 1) :
        ~calls[c].raised /\ n <= Len(calls[c].findings)}

\* C21: every finding run_analysis returns has a confidence at or above the
\* effective threshold of its agent; the first finding of a result is kept
\* when its confidence equals the threshold, and no finding of a result that is
\* below the threshold of its agent is in the list.
C21_AtOrAboveThreshold ==
    pc = "returned" =>
        /\ \A i \in 1..Len(all_findings) :
                all_findings[i]["confidence"] >= ThresholdOf(all_findings[i]["agent"])
        /\ \A p \in Produced :
                LET call == calls[p[1]]
                    f == call.findings[p[2]]
                    returned == Attributed(f, call.agent, call.file_path)
                IN /\ (p[2] = 1 /\ f["confidence"] = ThresholdOf(call.agent))
                        => \E i \in 1..Len(all_findings) : all_findings[i] = returned
                   /\ f["confidence"] < ThresholdOf(call.agent)
                        => \A i \in 1..Len(all_findings) : all_findings[i] # returned

\* A returned list that holds a finding at the threshold of its agent, from a
\* result that also held a finding below it.
C21_Witness ==
    /\ pc = "returned"
    /\ \E i \in 1..Len(all_findings) :
            all_findings[i]["confidence"] = ThresholdOf(all_findings[i]["agent"])
    /\ \E p \in Produced :
            calls[p[1]].findings[p[2]]["confidence"] < ThresholdOf(calls[p[1]].agent)
    /\ \E a \in SeqRange(self_agents) : ThresholdOf(a) # config.confidence_threshold

\* A path is excluded by a pattern when it glob-matches the pattern or the
\* file lies inside the directory the pattern names.
InsideDirectory(file_path, pattern) ==
    LET directory == RStripSlash(pattern)
    IN directory # "" /\ StartsWith(file_path, directory \o "/")

StatedExcluded(file_path, exclude_paths) ==
    \E k \in 1..Len(exclude_paths) :
        \/ FnMatch(file_path, exclude_paths[k])
        \/ InsideDirectory(file_path, exclude_paths[k])

\* C22: run_analysis calls no agent on a file that an exclude_paths pattern
\* excludes and has no finding for such a file in its list; when every file of
\* the diff is excluded the list it returns is empty.
C22_ExcludedFilesUntouched ==
    /\ \A c \in 1..Len(calls) :
            ~StatedExcluded(calls[c].file_path, config.exclude_paths)
    /\ \A i \in 1..Len(all_findings) :
            ~StatedExcluded(all_findings[i]["file_path"], config.exclude_paths)
    /\ (pc = "returned"
            /\ \A n \in 1..Len(file_diffs) :
                    StatedExcluded(file_diffs[n], config.exclude_paths))
         => all_findings = <<>>

\* A returned analysis of a diff of an excluded file and another file, with
\* findings for the other.
C22_Witness ==
    /\ pc = "returned"
    /\ \E n \in 1..Len(file_diffs) : StatedExcluded(file_diffs[n], config.exclude_paths)
    /\ \E n \in 1..Len(file_diffs) : ~StatedExcluded(file_diffs[n], config.exclude_paths)
    /\ all_findings # <<>>
    /\ Len(calls) = Len(self_agents)

\* The finding is what the call returned at some place of its result, but
\* for its agent and file_path.
FromCall(f, call) ==
    \E n \in 1..Len(call.findings) :
        LET raw == call.findings[n]
        IN /\ DOMAIN f = DOMAIN raw \cup {"agent", "file_path"}
           /\ \A k \in DOMAIN raw \ {"agent", "file_path"} : f[k] = raw[k]

\* C23: every finding run_analysis returns has an agent and a file_path, the
\* agent is a loaded agent and the file_path a file of the diff, and a call of
\* that agent's forward on that file returned the finding.
C23_AttributedToAgentAndFile ==
    pc = "returned" =>
        \A i \in 1..Len(all_findings) :
            /\ {"agent", "file_path"} \subseteq DOMAIN all_findings[i]
            /\ all_findings[i]["agent"] \in SeqRange(self_agents)
            /\ all_findings[i]["file_path"] \in SeqRange(file_diffs)
            /\ \E c \in 1..Len(calls) :
                    /\ ~calls[c].raised
                    /\ calls[c].agent = all_findings[i]["agent"]
                    /\ calls[c].file_path = all_findings[i]["file_path"]
                    /\ FromCall(all_findings[i], calls[c])

\* A returned list with findings of two agents and of two files, one of them
\* returned by its agent with an agent and a file_path already set.
C23_Witness ==
    /\ pc = "returned"
    /\ \E i, j \in 1..Len(all_findings) :
            /\ all_findings[i]["agent"] # all_findings[j]["agent"]
            /\ all_findings[i]["file_path"] # all_findings[j]["file_path"]
    /\ \E i \in 1..Len(all_findings) :
        \E c \in 1..Len(calls) :
        \E n \in 1..Len(calls[c].findings) :
            /\ "agent" \in DOMAIN calls[c].findings[n]
            /\ calls[c].findings[n]["finding"] = all_findings[i]["finding"]
            /\ calls[c].findings[n]["agent"] # all_findings[i]["agent"]

\* The (agent, file) pairs of an analysis in their usual order: the files of
\* the diff that are not excluded, and for each file the loaded agents.
UsualPairs ==
    Flatten([n \in 1..Len(file_diffs) |->
        IF _should_exclude_file(file_diffs[n], config.exclude_paths)
        THEN <<>>
        ELSE [a \in 1..Len(self_agents) |-> <<self_agents[a], file_diffs[n]>>]])

\* What the calls that did not raise produce, in the order of the calls.
ProducedByOthers ==
    Flatten([c \in 1..Len(calls) |->
        IF calls[c].raised
        THEN <<>>
        ELSE AgentContribution(config, calls[c].agent, calls[c].file_path,
                               calls[c].findings)])

\* C30: no exception of an agent leaves run_analysis; when run_analysis
\* returns it has called every agent on every file that is not excluded, those
\* after a call that raised as well, and its list is what the calls that did
\* not raise produced, in the order of the calls.
C30_FailingAgentIsolated ==
    /\ pc # "raised"
    /\ pc = "returned" =>
            /\ [c \in 1..Len(calls) |-> <<calls[c].agent, calls[c].file_path>>]
                    = UsualPairs
            /\ all_findings = ProducedByOthers

\* A returned analysis in which a call raised between two calls that both
\* have findings in the list.
C30_Witness ==
    /\ pc = "returned"
    /\ \E b, c, d \in 1..Len(calls) :
            /\ b < c /\ c < d
            /\ calls[c].raised
            /\ ~calls[b].raised /\ ~calls[d].raised
            /\ \E i, j \in 1..Len(all_findings) :
                    /\ i < j
                    /\ all_findings[i]["agent"] = calls[b].agent
                    /\ all_findings[i]["file_path"] = calls[b].file_path
                    /\ all_findings[j]["agent"] = calls[d].agent
                    /\ all_findings[j]["file_path"] = calls[d].file_path

\* C29: _should_exclude_file returns true for a path only if the path
\* glob-matches a pattern of exclude_paths or the file lies inside the
\* directory a pattern names; a path that only begins with the characters of a
\* directory pattern, and any path under an empty or "/" pattern, is not
\* excluded for that.
C29_ExcludedOnlyIfMatchedOrInside ==
    (pc = "exclusion_decided" /\ ret = TRUE)
        => StatedExcluded(arg[1], config.exclude_paths)

\* The value sets a config object is to satisfy.
StatedValid(c) ==
    /\ 0 <= c.confidence_threshold /\ c.confidence_threshold <= 100
    /\ c.group_by \in {"file", "category", "none"}
    /\ c.comment_mode \in {"update", "append"}
    /\ c.max_findings_per_agent > 0

\* C24: a config object that the constructor or load_config yields has its
\* confidence_threshold in [0, 1], its group_by in {file, category, none}, its
\* comment_mode in {update, append} and a positive max_findings_per_agent; with
\* a value outside these sets the call ends in ValueError.
C24_ConfigValuesValidated ==
    (pc \in {"constructor_done", "load_config_done"} /\ ret.raised = "")
        => StatedValid(ret.config)

\* C28: load_config on a path that does not exist raises FileNotFoundError and
\* returns no config object.
C28_MissingFileRaises ==
    (pc = "load_config_done" /\ arg.file = "missing")
        => ret.raised = "FileNotFoundError"

\* The class of the name exists in the agents package.
ClassExists(agent_name) ==
    \E module_name \in DOMAIN AgentsPackage : agent_name \in AgentsPackage[module_name]

\* C25: after construction the agents mapping holds exactly the names of
\* enabled_agents whose class exists in the agents package: HardCodedCredsAgent,
\* PiiExposureAgent and GitHubActionsSecurityAgent each when enabled, and no
\* name that does not resolve, whatever names come before or after it.
C25_EnabledAgentsLoaded ==
    pc = "constructed" =>
        SeqRange(self_agents)
            = {n \in SeqRange(config.enabled_agents) : ClassExists(n)}

\* A file path is unknown when the field is absent or the empty string.
PathUnknown(f) == "file_path" \notin DOMAIN f \/ f["file_path"] = ""

\* The label of a finding in a grouping by file.
StatedFileLabel(f) == IF PathUnknown(f) THEN "Unknown File" ELSE f["file_path"]

\* C26: grouping by file, _group_findings puts each finding under the label
\* that is its file path, or Unknown File when the path is absent or empty,
\* and the labels are in the order of their first member in the input.
C26_FileLabels ==
    (pc = "grouped" /\ group_by = "file") =>
        /\ \A k \in 1..Len(ret) :
                \A m \in 1..Len(ret[k].findings) :
                    ret[k].name = StatedFileLabel(ret[k].findings[m])
        /\ [k \in 1..Len(ret) |-> ret[k].name]
                = FirstSeen([n \in 1..Len(arg) |-> StatedFileLabel(arg[n])])

\* The location line of a finding: the file with its line when both are
\* known, the file alone when only it is known, and an unknown location
\* whenever the path is unknown (the backquotes are written as apostrophes).
LocationAsStated(f) ==
    IF PathUnknown(f) THEN "- Unknown location"
    ELSE IF "line_number" \notin DOMAIN f THEN "- '" \o f["file_path"] \o "'"
    ELSE "- '" \o f["file_path"] \o "' (line " \o ToString(f["line_number"]) \o ")"

\* C27: in the report the block of every finding begins with the location
\* line stated for it: file and line, file alone, or Unknown location when
\* the path is absent or empty, with or without a line number.
C27_LocationLine ==
    pc = "synthesized" =>
        \A k \in 1..Len(rendered) :
            \A m \in 1..Len(rendered[k].findings) :
                LET f == rendered[k].findings[m]
                IN \A i \in BlockStarts(lines) :
                        lines[i + 1] = "  - **" \o f["finding"] \o "**"
                            => lines[i] = LocationAsStated(f)

====
